---- MODULE Spec2Model ----
(***************************************************************************)
(* A model of main.py, the converter from TOML to the teaching             *)
(* configuration language: remove_comments, validate_name, format_list,    *)
(* format_table, evaluate_infix, process_data and main.                    *)
(*                                                                         *)
(* A Python str is a sequence of one-character strings, so that "in",      *)
(* strip, split, splitlines, join, startswith and the name pattern are     *)
(* computed character by character, as the code computes them.             *)
(***************************************************************************)
EXTENDS Integers, Sequences, FiniteSets, TLC

VARIABLES
    \* remove_comments (main.py 40-71)
    rc_data,             \* the argument data: the raw text
    lines,               \* data.splitlines()
    line_number,         \* the index enumerate() gives next
    cleaned_lines,
    rc_comments,         \* the local list comments
    inside_comment,
    comment_buffer,
    comment_start_line,  \* <<>> is None, <<n>> is n
    rc_pc,               \* "start", "loop", "done"
    rc_result,           \* <<>> until the return, then <<[cleaned, comments]>>
    \* validate_name (main.py 73-75)
    vn_name,
    vn_result,           \* "pending", "ok", "ValueError"
    \* evaluate_infix (main.py 85-101)
    ev_expression,       \* the argument expression
    ev_constants,        \* the argument constants
    tokens,              \* expression.split()
    token_i,             \* how many tokens the loop has taken
    stack,
    ev_pc,               \* "start", "loop", "done"
    ev_result,           \* <<>> until the call ends, then <<what it returned or raised>>
    \* main, load_toml and process_data (main.py 26-38, 103-158)
    in_raw,              \* the text of the input file
    in_parsed,           \* what toml.loads makes of the cleaned text
    data,                \* the entries, in document order
    comments,            \* the comments load_toml returns
    constants,
    output_lines,
    entry_i,             \* how many entries the loop of process_data has taken
    pc,                  \* "load", "process", "open", "write", "exit0", "exit1", "crash"
    error,               \* the exception that ended the run, if any
    out_file,            \* <<>> while the output file is untouched, else <<its lines>>
    written,             \* how many lines f.write has been called for
    \* format_list and format_table (main.py 78-83)
    fmt_value,           \* the argument: a list or a table
    fmt_result           \* <<>> until the call returns, then <<the string>>

rcVars == <<rc_data, lines, line_number, cleaned_lines, rc_comments, inside_comment,
            comment_buffer, comment_start_line, rc_pc, rc_result>>
vnVars == <<vn_name, vn_result>>
evVars == <<ev_expression, ev_constants, tokens, token_i, stack, ev_pc, ev_result>>
mainVars == <<in_raw, in_parsed, data, comments, constants, output_lines, entry_i, pc,
              error, out_file, written>>
fmtVars == <<fmt_value, fmt_result>>
vars == <<rcVars, vnVars, evVars, mainVars, fmtVars>>

----------------------------------------------------------------------------
(* Bounds of the model.                                                    *)

\* the longest raw text, in lines
MaxLines == 4
\* the longest entry name, in characters
MaxNameLen == 3
\* the longest expression, in tokens
MaxTokens == 5
\* the longest document, in top-level entries
MaxEntries == 3
\* the longest list or table, in items
MaxItems == 3

----------------------------------------------------------------------------
(* Python str operations.                                                  *)

NL == "\n"
SP == " "

Digits == <<"0", "1", "2", "3", "4", "5", "6", "7", "8", "9">>
DigitChars == {Digits[i] : i \in 1..Len(Digits)}
UpperChars == {"A", "B", "C", "D", "K"}
LowerChars == {"a", "b", "c", "d", "x"}

\* str.isspace of one character, for the characters the model uses
IsSpace(c) == c \in {SP, NL, "\t"}

\* pat in s
Contains(s, pat) ==
    \E i \in 1..(Len(s) - Len(pat) + 1) : SubSeq(s, i, i + Len(pat) - 1) = pat

\* sep.join(parts)
RECURSIVE Join(_, _)
Join(parts, sep) ==
    IF Len(parts) = 0 THEN <<>>
    ELSE IF Len(parts) = 1 THEN parts[1]
    ELSE parts[1] \o sep \o Join(Tail(parts), sep)

\* s.lstrip(), s.rstrip(), s.strip()
RECURSIVE LStrip(_)
LStrip(s) == IF Len(s) > 0 /\ IsSpace(s[1]) THEN LStrip(Tail(s)) ELSE s
RECURSIVE RStrip(_)
RStrip(s) == IF Len(s) > 0 /\ IsSpace(s[Len(s)]) THEN RStrip(SubSeq(s, 1, Len(s) - 1)) ELSE s
Strip(s) == RStrip(LStrip(s))

\* str(n) of an int n
RECURSIVE NatToStr(_)
NatToStr(n) == IF n < 10 THEN <<Digits[n + 1]>>
               ELSE NatToStr(n \div 10) \o <<Digits[(n % 10) + 1]>>
IntToStr(n) == IF n < 0 THEN <<"-">> \o NatToStr(-n) ELSE NatToStr(n)

\* s.splitlines(): the text cut after each line break, no empty last line
RECURSIVE SplitLinesFrom(_, _)
SplitLinesFrom(s, cur) ==
    IF Len(s) = 0 THEN (IF Len(cur) = 0 THEN <<>> ELSE <<cur>>)
    ELSE IF s[1] = NL THEN <<cur>> \o SplitLinesFrom(Tail(s), <<>>)
    ELSE SplitLinesFrom(Tail(s), Append(cur, s[1]))
SplitLines(s) == SplitLinesFrom(s, <<>>)

\* s.split(): the maximal runs of non-whitespace characters
RECURSIVE SplitFrom(_, _)
SplitFrom(s, cur) ==
    IF Len(s) = 0 THEN (IF Len(cur) = 0 THEN <<>> ELSE <<cur>>)
    ELSE IF IsSpace(s[1])
         THEN (IF Len(cur) = 0 THEN <<>> ELSE <<cur>>) \o SplitFrom(Tail(s), <<>>)
    ELSE SplitFrom(Tail(s), Append(cur, s[1]))
Split(s) == SplitFrom(s, <<>>)

----------------------------------------------------------------------------
(* remove_comments                                                         *)

OpenMarker == <<"{", "{", "!">>
CloseMarker == <<"}", "}">>

\* the state of the loop of remove_comments after one more line
RCState == [cleaned_lines |-> cleaned_lines, comments |-> rc_comments,
            inside_comment |-> inside_comment, comment_buffer |-> comment_buffer,
            comment_start_line |-> comment_start_line]

\* the comment text recorded at the closing line
CommentText(buffer) == Strip(Join(buffer, <<SP>>))

\* the loop body without the continue after the closing branch: the closing
\* line goes on to the last if, outside a comment by then, and is copied
RCIterClosingLineCopied(st, n, line) ==
    IF Contains(line, OpenMarker)
    THEN [st EXCEPT !.inside_comment = TRUE,
                    !.comment_start_line = <<n>>,
                    !.comment_buffer = Append(st.comment_buffer, line)]
    ELSE IF Contains(line, CloseMarker) /\ st.inside_comment
    THEN [st EXCEPT !.inside_comment = FALSE,
                    !.comments = Append(st.comments,
                        <<st.comment_start_line[1],
                          CommentText(Append(st.comment_buffer, line))>>),
                    !.comment_buffer = <<>>,
                    !.cleaned_lines = Append(st.cleaned_lines, line)]
    ELSE IF st.inside_comment
    THEN [st EXCEPT !.comment_buffer = Append(st.comment_buffer, line)]
    ELSE [st EXCEPT !.cleaned_lines = Append(st.cleaned_lines, line)]

\* one iteration of the loop at main.py 52-69 on line n (zero-based), text line
RCIter(st, n, line) ==
    IF Contains(line, OpenMarker)
    THEN [st EXCEPT !.inside_comment = TRUE,
                    !.comment_start_line = <<n>>,
                    !.comment_buffer = Append(st.comment_buffer, line)]
    ELSE IF Contains(line, CloseMarker) /\ st.inside_comment
    THEN [st EXCEPT !.inside_comment = FALSE,
                    !.comments = Append(st.comments,
                        <<st.comment_start_line[1],
                          CommentText(Append(st.comment_buffer, line))>>),
                    !.comment_buffer = <<>>]
    ELSE IF st.inside_comment
    THEN [st EXCEPT !.comment_buffer = Append(st.comment_buffer, line)]
    ELSE [st EXCEPT !.cleaned_lines = Append(st.cleaned_lines, line)]

RCInitState == [cleaned_lines |-> <<>>, comments |-> <<>>, inside_comment |-> FALSE,
                comment_buffer |-> <<>>, comment_start_line |-> <<>>]

\* the loop over lines[from..], from state st
RECURSIVE RCLoop(_, _, _)
RCLoop(st, ls, from) ==
    IF from > Len(ls) THEN st
    ELSE RCLoop(RCIter(st, from - 1, ls[from]), ls, from + 1)

\* remove_comments(data) as a function: the pair it returns
RemoveComments(text) ==
    LET st == RCLoop(RCInitState, SplitLines(text), 1)
    IN [cleaned |-> Join(st.cleaned_lines, <<NL>>), comments |-> st.comments]

\* the lines raw texts are made of
LinePool == { <<"A">>,
              <<"{", "{", "!", "c", SP>>,
              <<SP, "}", "}">>,
              <<"{", "{", "!", "c", "}", "}">>,
              <<SP, "x">>,
              <<>> }

SeqsUpTo(S, n) == UNION { [1..k -> S] : k \in 0..n }

RawTexts == { Join(ls, <<NL>>) \o tail :
                ls \in SeqsUpTo(LinePool, MaxLines), tail \in {<<>>, <<NL>>} }

RCIdle ==
    /\ rc_data = <<>>
    /\ lines = <<>>
    /\ line_number = 0
    /\ cleaned_lines = <<>>
    /\ rc_comments = <<>>
    /\ inside_comment = FALSE
    /\ comment_buffer = <<>>
    /\ comment_start_line = <<>>
    /\ rc_result = <<>>

\* main.py 45-50
RCStart ==
    /\ rc_pc = "start"
    /\ lines' = SplitLines(rc_data)
    /\ line_number' = 0
    /\ cleaned_lines' = <<>>
    /\ rc_comments' = <<>>
    /\ inside_comment' = FALSE
    /\ comment_buffer' = <<>>
    /\ comment_start_line' = <<>>
    /\ rc_pc' = "loop"
    /\ UNCHANGED <<rc_data, rc_result, vnVars, evVars, mainVars, fmtVars>>

\* main.py 52-69, one line
RCLine ==
    /\ rc_pc = "loop"
    /\ line_number < Len(lines)
    /\ LET st == RCIter(RCState, line_number, lines[line_number + 1])
       IN /\ cleaned_lines' = st.cleaned_lines
          /\ rc_comments' = st.comments
          /\ inside_comment' = st.inside_comment
          /\ comment_buffer' = st.comment_buffer
          /\ comment_start_line' = st.comment_start_line
    /\ line_number' = line_number + 1
    /\ UNCHANGED <<rc_data, lines, rc_pc, rc_result, vnVars, evVars, mainVars, fmtVars>>

\* a return that records the block still open as a comment
RCReturnRecordingOpenBlock ==
    /\ rc_pc = "loop"
    /\ line_number = Len(lines)
    /\ rc_result' = <<[cleaned |-> Join(cleaned_lines, <<NL>>),
                       comments |-> IF inside_comment
                                    THEN Append(rc_comments, <<comment_start_line[1],
                                                               CommentText(comment_buffer)>>)
                                    ELSE rc_comments]>>
    /\ rc_pc' = "done"
    /\ UNCHANGED <<rc_data, lines, line_number, cleaned_lines, rc_comments, inside_comment,
                   comment_buffer, comment_start_line, vnVars, evVars, mainVars, fmtVars>>

\* main.py 71
RCReturn ==
    /\ rc_pc = "loop"
    /\ line_number = Len(lines)
    /\ rc_result' = <<[cleaned |-> Join(cleaned_lines, <<NL>>), comments |-> rc_comments]>>
    /\ rc_pc' = "done"
    /\ UNCHANGED <<rc_data, lines, line_number, cleaned_lines, rc_comments, inside_comment,
                   comment_buffer, comment_start_line, vnVars, evVars, mainVars, fmtVars>>

----------------------------------------------------------------------------
(* C1: the comment blocks of a raw text, read off the text itself.         *)

\* the line holds the opening marker and, after it, the closing marker
OneLineBlock(line) ==
    \E i \in 1..Len(line), j \in 1..Len(line) :
        /\ i + Len(OpenMarker) <= j
        /\ j + Len(CloseMarker) - 1 <= Len(line)
        /\ SubSeq(line, i, i + Len(OpenMarker) - 1) = OpenMarker
        /\ SubSeq(line, j, j + Len(CloseMarker) - 1) = CloseMarker

\* the blocks <<first, last>> (one-based lines) of ls, and whether the markers
\* are balanced and not nested; open is <<>> or <<first line of the open block>>
RECURSIVE BlocksFrom(_, _, _, _)
BlocksFrom(ls, i, open, blocks) ==
    IF i > Len(ls) THEN [ok |-> open = <<>>, blocks |-> blocks]
    ELSE IF open = <<>>
    THEN IF OneLineBlock(ls[i]) THEN BlocksFrom(ls, i + 1, <<>>, Append(blocks, <<i, i>>))
         ELSE IF Contains(ls[i], OpenMarker) /\ Contains(ls[i], CloseMarker)
              THEN [ok |-> FALSE, blocks |-> blocks]
         ELSE IF Contains(ls[i], OpenMarker) THEN BlocksFrom(ls, i + 1, <<i>>, blocks)
         ELSE IF Contains(ls[i], CloseMarker) THEN [ok |-> FALSE, blocks |-> blocks]
         ELSE BlocksFrom(ls, i + 1, <<>>, blocks)
    ELSE IF Contains(ls[i], OpenMarker) THEN [ok |-> FALSE, blocks |-> blocks]
    ELSE IF Contains(ls[i], CloseMarker)
         THEN BlocksFrom(ls, i + 1, <<>>, Append(blocks, <<open[1], i>>))
    ELSE BlocksFrom(ls, i + 1, open, blocks)
Blocks(ls) == BlocksFrom(ls, 1, <<>>, <<>>)

InBlock(blocks, i) == \E b \in 1..Len(blocks) : blocks[b][1] <= i /\ i <= blocks[b][2]

\* the lines of ls outside every block, in order
RECURSIVE LinesOutside(_, _, _)
LinesOutside(ls, blocks, i) ==
    IF i > Len(ls) THEN <<>>
    ELSE (IF InBlock(blocks, i) THEN <<>> ELSE <<ls[i]>>) \o LinesOutside(ls, blocks, i + 1)

\* C1: for a raw text whose comment markers are balanced and not nested (a
\* block may open and close on one line), remove_comments returns the lines
\* outside the blocks, in order, and one comment per block, in order, whose
\* index is the zero-based index of the block's opening line.
RemoveCommentsStripsBlocks ==
    rc_pc = "done" =>
        LET ls == SplitLines(rc_data)
            b == Blocks(ls)
            r == rc_result[1]
        IN b.ok =>
            /\ r.cleaned = Join(LinesOutside(ls, b.blocks, 1), <<NL>>)
            /\ Len(r.comments) = Len(b.blocks)
            /\ \A k \in 1..Len(b.blocks) : r.comments[k][1] = b.blocks[k][1] - 1

\* the same, for the raw texts none of whose blocks opens and closes on one line
RemoveCommentsStripsMultiLineBlocks ==
    rc_pc = "done" =>
        LET ls == SplitLines(rc_data)
            b == Blocks(ls)
            r == rc_result[1]
        IN (b.ok /\ \A k \in 1..Len(b.blocks) : b.blocks[k][1] < b.blocks[k][2]) =>
            /\ r.cleaned = Join(LinesOutside(ls, b.blocks, 1), <<NL>>)
            /\ Len(r.comments) = Len(b.blocks)
            /\ \A k \in 1..Len(b.blocks) : r.comments[k][1] = b.blocks[k][1] - 1


----------------------------------------------------------------------------
(* validate_name                                                           *)

NameFirst == {"_"} \cup UpperChars
NameRest == {"_"} \cup UpperChars \cup LowerChars \cup DigitChars

\* re.match(NAME_REGEX, name): ^ is the start of the string, $ is the end of
\* the string or the position before a line break that ends the string
NameMatches(name) ==
    /\ Len(name) >= 1
    /\ name[1] \in NameFirst
    /\ \E end \in 1..Len(name) :
          /\ \A i \in 2..end : name[i] \in NameRest
          /\ \/ end = Len(name)
             \/ end = Len(name) - 1 /\ name[Len(name)] = NL

\* validate_name(name): "ok" when it returns, "ValueError" when it raises
ValidateName(name) == IF NameMatches(name) THEN "ok" ELSE "ValueError"

NameChars == {"_", "A", "a", "1", "-", NL}
NamePool == SeqsUpTo(NameChars, MaxNameLen)

VNIdle == vn_name = <<>> /\ vn_result = "pending"

\* main.py 73-75
VNValidate ==
    /\ vn_result = "pending"
    /\ vn_result' = ValidateName(vn_name)
    /\ UNCHANGED <<vn_name, rcVars, evVars, mainVars, fmtVars>>

----------------------------------------------------------------------------
(* Python numbers.  A value is [t, n, d]: the type ("int", "float" or      *)
(* "bool") and the number n/d in lowest terms, d > 0.  A float is the      *)
(* rational it stands for: rounding is not modelled.                       *)

Abs(n) == IF n < 0 THEN -n ELSE n
RECURSIVE GCD(_, _)
GCD(a, b) == IF b = 0 THEN a ELSE GCD(b, a % b)

PyInt(n) == [t |-> "int", n |-> n, d |-> 1]
PyBool(b) == [t |-> "bool", n |-> IF b THEN 1 ELSE 0, d |-> 1]
PyFloat(n, d) ==
    LET g == GCD(Abs(n), Abs(d))
        sgn == IF d < 0 THEN -1 ELSE 1
    IN [t |-> "float", n |-> sgn * (n \div g), d |-> sgn * (d \div g)]

\* the type of x + y, x - y, x * y
ArithType(x, y) == IF x.t = "float" \/ y.t = "float" THEN "float" ELSE "int"
Arith(x, y, n, d) == IF ArithType(x, y) = "float" THEN PyFloat(n, d) ELSE PyInt(n)

\* what a call returns, or the exception it raises
Return(v) == [kind |-> "return", val |-> v, exc |-> "none"]
Raise(e) == [kind |-> "raise", val |-> PyInt(0), exc |-> e]

\* OPERATORS, main.py 8-14
OperatorTokens == { <<"+">>, <<"-">>, <<"*">>, <<"/">>, <<"m", "i", "n">> }
OpAdd(x, y) == Return(Arith(x, y, x.n * y.d + y.n * x.d, x.d * y.d))
OpSubSwapped(x, y) == Return(Arith(x, y, y.n * x.d - x.n * y.d, x.d * y.d))
OpSub(x, y) == Return(Arith(x, y, x.n * y.d - y.n * x.d, x.d * y.d))
OpMul(x, y) == Return(Arith(x, y, x.n * y.n, x.d * y.d))
OpDiv(x, y) == IF y.n = 0 THEN Raise("ZeroDivisionError")
               ELSE Return(PyFloat(x.n * y.d, x.d * y.n))
OpMin(x, y) == Return(IF x.n * y.d < y.n * x.d THEN x ELSE y)
ApplyOperator(token, x, y) ==
    CASE token = <<"+">> -> OpAdd(x, y)
      [] token = <<"-">> -> OpSub(x, y)
      [] token = <<"*">> -> OpMul(x, y)
      [] token = <<"/">> -> OpDiv(x, y)
      [] token = <<"m", "i", "n">> -> OpMin(x, y)

\* token.isdigit(), for the characters the model uses
IsDigit(token) == Len(token) > 0 /\ \A i \in 1..Len(token) : token[i] \in DigitChars

DigitValue(c) == CHOOSE v \in 0..9 : Digits[v + 1] = c
\* int(token) of a token of decimal digits
RECURSIVE ParseInt(_)
ParseInt(token) ==
    IF Len(token) = 0 THEN 0
    ELSE 10 * ParseInt(SubSeq(token, 1, Len(token) - 1)) + DigitValue(token[Len(token)])

\* main.py 99-100: the token is no literal, no name and no operator
UnknownTokenSkipped(stk, token) == [stack |-> stk, exc |-> "none"]
UnknownToken(stk, token) == [stack |-> stk, exc |-> "ValueError"]

\* one iteration of the loop at main.py 89-100: the new stack, or the exception
EvalToken(stk, token, env) ==
    IF IsDigit(token)
    THEN [stack |-> Append(stk, PyInt(ParseInt(token))), exc |-> "none"]
    ELSE IF token \in DOMAIN env
    THEN [stack |-> Append(stk, env[token]), exc |-> "none"]
    ELSE IF token \in OperatorTokens
    THEN IF Len(stk) < 2
         THEN [stack |-> <<>>, exc |-> "IndexError"]
         ELSE LET b == stk[Len(stk)]
                  a == stk[Len(stk) - 1]
                  r == ApplyOperator(token, a, b)
              IN IF r.kind = "raise"
                 THEN [stack |-> SubSeq(stk, 1, Len(stk) - 2), exc |-> r.exc]
                 ELSE [stack |-> Append(SubSeq(stk, 1, Len(stk) - 2), r.val), exc |-> "none"]
    ELSE UnknownToken(stk, token)

\* main.py 101: return stack.pop()
EvalPop(stk) == IF Len(stk) = 0 THEN Raise("IndexError") ELSE Return(stk[Len(stk)])

\* the loop over toks[from..] and the final pop
RECURSIVE EvalLoop(_, _, _, _)
EvalLoop(stk, toks, from, env) ==
    IF from > Len(toks) THEN EvalPop(stk)
    ELSE LET s == EvalToken(stk, toks[from], env)
         IN IF s.exc # "none" THEN Raise(s.exc)
            ELSE EvalLoop(s.stack, toks, from + 1, env)

\* evaluate_infix(expression, env) as a function
EvaluateInfix(expression, env) == EvalLoop(<<>>, Split(expression), 1, env)

EmptyEnv == [k \in {} |-> PyInt(0)]
Extend(env, k, v) == [x \in DOMAIN env \cup {k} |-> IF x = k THEN v ELSE env[x]]

\* the tokens expressions are made of: a literal, a name, the operators, and
\* a symbol that is no operator
TokenPool == { <<"1", "2">>, <<"A">>,
               <<"+">>, <<"-">>, <<"*">>, <<"/">>, <<"m", "i", "n">>, <<"%">> }
Expressions == { Join(ts, <<SP>>) : ts \in SeqsUpTo(TokenPool, MaxTokens) }
EnvPool == { EmptyEnv, Extend(EmptyEnv, <<"A">>, PyInt(10)) }

EVIdle ==
    /\ ev_expression = <<>>
    /\ ev_constants = EmptyEnv
    /\ tokens = <<>>
    /\ token_i = 0
    /\ stack = <<>>
    /\ ev_result = <<>>

\* main.py 87-88
EVStart ==
    /\ ev_pc = "start"
    /\ stack' = <<>>
    /\ tokens' = Split(ev_expression)
    /\ token_i' = 0
    /\ ev_pc' = "loop"
    /\ UNCHANGED <<ev_expression, ev_constants, ev_result, rcVars, vnVars, mainVars, fmtVars>>

\* main.py 89-100, one token
EVToken ==
    /\ ev_pc = "loop"
    /\ token_i < Len(tokens)
    /\ LET s == EvalToken(stack, tokens[token_i + 1], ev_constants)
       IN /\ stack' = s.stack
          /\ IF s.exc # "none"
             THEN ev_result' = <<Raise(s.exc)>> /\ ev_pc' = "done"
             ELSE UNCHANGED <<ev_result, ev_pc>>
    /\ token_i' = token_i + 1
    /\ UNCHANGED <<ev_expression, ev_constants, tokens, rcVars, vnVars, mainVars, fmtVars>>

\* main.py 101
EVReturn ==
    /\ ev_pc = "loop"
    /\ token_i = Len(tokens)
    /\ ev_result' = <<EvalPop(stack)>>
    /\ stack' = IF Len(stack) = 0 THEN stack ELSE SubSeq(stack, 1, Len(stack) - 1)
    /\ ev_pc' = "done"
    /\ UNCHANGED <<ev_expression, ev_constants, tokens, token_i, rcVars, vnVars, mainVars, fmtVars>>

----------------------------------------------------------------------------
(* Values of a parsed document, format_list, format_table.                 *)
(* An entry is [key, value]; a value is [type, num, items, pairs, text]:    *)
(* the Python type and, for "int", "float" and "bool" the number num, for   *)
(* "list" the numbers items, for "dict" the <<key, number>> pairs, for      *)
(* "str" the text.                                                          *)

\* the digits of r/d after the decimal point, r < d, while they last
RECURSIVE FractionDigits(_, _, _)
FractionDigits(r, d, left) ==
    IF r = 0 \/ left = 0 THEN <<>>
    ELSE <<Digits[((10 * r) \div d) + 1]>> \o FractionDigits((10 * r) % d, d, left - 1)

\* str(x) of a float x whose decimal expansion ends within 16 digits
FloatToStr(x) ==
    LET a == Abs(x.n)
        frac == FractionDigits(a % x.d, x.d, 16)
    IN (IF x.n < 0 THEN <<"-">> ELSE <<>>) \o NatToStr(a \div x.d) \o <<".">>
       \o (IF frac = <<>> THEN <<"0">> ELSE frac)

\* str(x) of a number
NumToStr(x) ==
    CASE x.t = "int" -> IntToStr(x.n)
      [] x.t = "bool" -> (IF x.n = 1 THEN <<"T", "r", "u", "e">> ELSE <<"F", "a", "l", "s", "e">>)
      [] x.t = "float" -> FloatToStr(x)

\* [f(x) for x in xs]
RECURSIVE MapNumToStr(_)
MapNumToStr(xs) == IF Len(xs) = 0 THEN <<>> ELSE <<NumToStr(xs[1])>> \o MapNumToStr(Tail(xs))

\* main.py 78-79
FormatList(array) ==
    <<"(", "l", "i", "s", "t", SP>> \o Join(MapNumToStr(array), <<SP>>) \o <<")">>

\* main.py 82: f"{k} = {v}" for each item
RECURSIVE FormattedItems(_)
FormattedItems(items) ==
    IF Len(items) = 0 THEN <<>>
    ELSE <<items[1][1] \o <<SP, "=", SP>> \o NumToStr(items[1][2])>> \o FormattedItems(Tail(items))

\* format_table with every pair on a line of its own
FormatTableOnLines(items) ==
    <<"t", "a", "b", "l", "e", "(", "[", NL>> \o Join(FormattedItems(items), <<",", SP, NL>>)
        \o <<NL, "]", ")">>

\* main.py 81-83
FormatTable(items) ==
    <<"t", "a", "b", "l", "e", "(", "[">> \o Join(FormattedItems(items), <<",", SP>>)
        \o <<"]", ")">>

----------------------------------------------------------------------------
(* process_data                                                            *)

Arrow == <<SP, "-", ">", SP>>
Bar == "|"

\* isinstance(value, (int, float)): bool is a subclass of int
IsIntOrFloat(value) == value.type \in {"int", "float", "bool"}

\* value.startswith("|") and value.endswith("|")
IsExpression(value) ==
    /\ value.type = "str"
    /\ Len(value.text) >= 1
    /\ value.text[1] = Bar
    /\ value.text[Len(value.text)] = Bar

\* main.py 121: value[1:-1].strip()
ExpressionText(text) == Strip(SubSeq(text, 2, Len(text) - 1))

\* main.py 107: the last comment of each line number
CommentDict(cs) ==
    [n \in {cs[i][1] : i \in 1..Len(cs)} |->
        cs[CHOOSE i \in 1..Len(cs) :
               cs[i][1] = n /\ \A j \in (i + 1)..Len(cs) : cs[j][1] # n][2]]

\* the comment of the line after idx
WithCommentOfNextLine(line, idx, cs) ==
    IF idx + 1 \in DOMAIN CommentDict(cs)
    THEN line \o <<SP, SP, SP, "{", "!", SP>> \o CommentDict(cs)[idx + 1] \o <<SP, "!", "}">>
    ELSE line

\* main.py 134-136: the line as it stands in output_lines at index idx
WithComment(line, idx, cs) ==
    IF idx \in DOMAIN CommentDict(cs)
    THEN line \o <<SP, SP, SP, "{", "!", SP>> \o CommentDict(cs)[idx] \o <<SP, "!", "}">>
    ELSE line

NoError == [exc |-> "none", what |-> "none", key |-> <<>>]
Failed(exc, what, key) == [exc |-> exc, what |-> what, key |-> key]

\* main.py 114, 117, 119, 124: the line of an entry
ScalarLine(value, key) == NumToStr(value.num) \o Arrow \o key
ListLine(value, key) == FormatList(value.items) \o Arrow \o key
TableLine(value, key) == FormatTable(value.pairs) \o Arrow \o key
ExpressionLineNamed(result, expression, key) == NumToStr(result) \o Arrow \o key
ExpressionLine(result, expression, key) == NumToStr(result) \o Arrow \o expression

\* main.py 131-136
EmitCommentAsLine(st, line, cs) ==
    [st EXCEPT !.output_lines =
        IF Len(st.output_lines) \in DOMAIN CommentDict(cs)
        THEN st.output_lines \o <<line, CommentDict(cs)[Len(st.output_lines)]>>
        ELSE Append(st.output_lines, line)]
Emit(st, line, cs) ==
    [st EXCEPT !.output_lines = Append(st.output_lines,
                                       WithComment(line, Len(st.output_lines), cs))]

\* main.py 115, 125
Bind(st, key, v) == [st EXCEPT !.constants = Extend(st.constants, key, v)]

\* one iteration of the loop at main.py 109-136, from st = [constants,
\* output_lines, error]: the state after it, error telling what it raised
ProcessEntry(st, entry, cs) ==
    LET key == entry.key
        value == entry.value
    IN IF ValidateName(key) = "ValueError"
       THEN [st EXCEPT !.error = Failed("ValueError", "name", key)]
       ELSE IF IsIntOrFloat(value)
       THEN Bind(Emit(st, ScalarLine(value, key), cs), key, value.num)
       ELSE IF value.type = "list"
       THEN Emit(st, ListLine(value, key), cs)
       ELSE IF value.type = "dict"
       THEN Emit(st, TableLine(value, key), cs)
       ELSE IF IsExpression(value)
       THEN LET expression == ExpressionText(value.text)
                r == EvaluateInfix(expression, st.constants)
            IN IF r.kind = "raise"
               THEN IF r.exc = "ValueError"
                    THEN [st EXCEPT !.error = Failed("ValueError", "expression", key)]
                    ELSE [st EXCEPT !.error = Failed(r.exc, "uncaught", key)]
               ELSE Bind(Emit(st, ExpressionLine(r.val, expression, key), cs), key, r.val)
       ELSE [st EXCEPT !.error = Failed("ValueError", "format", key)]

----------------------------------------------------------------------------
(* main                                                                    *)

Number(x) == [type |-> x.t, num |-> x, items |-> <<>>, pairs |-> <<>>, text |-> <<>>]
List(xs) == [type |-> "list", num |-> PyInt(0), items |-> xs, pairs |-> <<>>, text |-> <<>>]
Table(kvs) == [type |-> "dict", num |-> PyInt(0), items |-> <<>>, pairs |-> kvs, text |-> <<>>]
Text(t) == [type |-> "str", num |-> PyInt(0), items |-> <<>>, pairs |-> <<>>, text |-> t]

Int10 == Number(PyInt(10))
BoolTrue == Number(PyBool(TRUE))
List123 == List(<<PyInt(1), PyInt(2), PyInt(3)>>)
TableK1K2 == Table(<< << <<"K", "1">>, PyInt(10) >>, << <<"K", "2">>, PyInt(20) >> >>)
SumAB == Text(<<Bar, "A", SP, "B", SP, "+", Bar>>)
HalfA == Text(<<Bar, SP, "A", SP, "2", SP, "/", SP, Bar>>)
ADivZero == Text(<<Bar, "A", SP, "0", SP, "/", Bar>>)
LonePlus == Text(<<Bar, "+", Bar>>)
LoneBar == Text(<<Bar>>)
PlainText == Text(<<"x">>)
Date == [type |-> "datetime", num |-> PyInt(0), items |-> <<>>, pairs |-> <<>>, text |-> <<>>]

\* the values of the entries: a number, a boolean, a list, a table,
\* expressions that evaluate or fail, a string that is no expression, a date
ValuePool == { Int10, BoolTrue, List123, TableK1K2,
               SumAB, HalfA, ADivZero, LonePlus, LoneBar, PlainText, Date }

\* the entry at position i is named Names[i], but for at most one entry:
\* one whose name is not a name ("1a"), or the first, its name ending in a
\* line break
Names == << <<"A">>, <<"B">>, <<"C">>, <<"D">>, <<"K">> >>
KeyAt(i, odd) ==
    IF odd[1] # i THEN Names[i]
    ELSE IF odd[2] = "invalid" THEN <<"1", "a">> ELSE Names[i] \o <<NL>>
OddKeys(n) == {<<0, "none">>} \cup ((1..n) \X {"invalid"}) \cup (({1} \cap (1..n)) \X {"newline"})

\* the document of the values vals, named as odd tells
Doc(vals, odd) == [i \in 1..Len(vals) |-> [key |-> KeyAt(i, odd), value |-> vals[i]]]

\* toml.loads(cleaned text): a document, or TomlDecodeError
ParsedOk(d) == [ok |-> TRUE, data |-> d]
ParsedError == [ok |-> FALSE, data |-> <<>>]

\* input texts without a comment and with one comment, which opens on line 0
MainRaws == { <<>>,
              <<"{", "{", "!", "c", SP, NL, SP, "}", "}", NL, "A">> }

MainIdle ==
    /\ in_raw = <<>>
    /\ in_parsed = ParsedError
    /\ data = <<>>
    /\ comments = <<>>
    /\ constants = EmptyEnv
    /\ output_lines = <<>>
    /\ entry_i = 0
    /\ error = NoError
    /\ out_file = <<>>
    /\ written = 0

\* main.py 27-29, 36-38: the input file cannot be read
LoadTomlIOError ==
    /\ pc = "load"
    /\ error' = Failed("IOError", "read", <<>>)
    /\ pc' = "exit1"
    /\ UNCHANGED <<in_raw, in_parsed, data, comments, constants, output_lines, entry_i,
                   out_file, written, rcVars, vnVars, evVars, fmtVars>>

\* main.py 30-35: toml.loads raises TomlDecodeError
LoadTomlDecodeError ==
    /\ pc = "load"
    /\ ~in_parsed.ok
    /\ error' = Failed("TomlDecodeError", "syntax", <<>>)
    /\ pc' = "exit1"
    /\ UNCHANGED <<in_raw, in_parsed, data, comments, constants, output_lines, entry_i,
                   out_file, written, rcVars, vnVars, evVars, fmtVars>>

\* main.py 143-144, 28-32, 104-107
LoadToml ==
    /\ pc = "load"
    /\ in_parsed.ok
    /\ comments' = RemoveComments(in_raw).comments
    /\ data' = in_parsed.data
    /\ constants' = EmptyEnv
    /\ output_lines' = <<>>
    /\ entry_i' = 0
    /\ pc' = "process"
    /\ UNCHANGED <<in_raw, in_parsed, error, out_file, written, rcVars, vnVars, evVars, fmtVars>>

\* main.py 109-136, one entry; 148-150 when it raises ValueError
ProcessNext ==
    /\ pc = "process"
    /\ entry_i < Len(data)
    /\ LET st == ProcessEntry([constants |-> constants, output_lines |-> output_lines,
                               error |-> NoError], data[entry_i + 1], comments)
       IN /\ constants' = st.constants
          /\ output_lines' = st.output_lines
          /\ error' = st.error
          /\ pc' = IF st.error.exc = "none" THEN "process"
                   ELSE IF st.error.exc = "ValueError" THEN "exit1"
                   ELSE "crash"
          /\ entry_i' = IF st.error.exc = "none" THEN entry_i + 1 ELSE entry_i
    /\ UNCHANGED <<in_raw, in_parsed, data, comments, out_file, written,
                   rcVars, vnVars, evVars, fmtVars>>

\* main.py 138, 147
ProcessReturn ==
    /\ pc = "process"
    /\ entry_i = Len(data)
    /\ pc' = "open"
    /\ UNCHANGED <<in_raw, in_parsed, data, comments, constants, output_lines, entry_i,
                   error, out_file, written, rcVars, vnVars, evVars, fmtVars>>

\* main.py 153: open(args.output, 'w') creates or empties the file
OpenOutput ==
    /\ pc = "open"
    /\ out_file' = << <<>> >>
    /\ written' = 0
    /\ pc' = "write"
    /\ UNCHANGED <<in_raw, in_parsed, data, comments, constants, output_lines, entry_i,
                   error, rcVars, vnVars, evVars, fmtVars>>

\* main.py 153, 156-158: open raises IOError
OpenOutputIOError ==
    /\ pc = "open"
    /\ error' = Failed("IOError", "open", <<>>)
    /\ pc' = "exit1"
    /\ UNCHANGED <<in_raw, in_parsed, data, comments, constants, output_lines, entry_i,
                   out_file, written, rcVars, vnVars, evVars, fmtVars>>

\* main.py 154-155, one line
WriteLine ==
    /\ pc = "write"
    /\ written < Len(output_lines)
    /\ out_file' = <<Append(out_file[1], output_lines[written + 1] \o <<NL>>)>>
    /\ written' = written + 1
    /\ UNCHANGED <<in_raw, in_parsed, data, comments, constants, output_lines, entry_i,
                   pc, error, rcVars, vnVars, evVars, fmtVars>>

\* main.py 155-158: f.write raises IOError
WriteLineIOError ==
    /\ pc = "write"
    /\ written < Len(output_lines)
    /\ error' = Failed("IOError", "write", <<>>)
    /\ pc' = "exit1"
    /\ UNCHANGED <<in_raw, in_parsed, data, comments, constants, output_lines, entry_i,
                   out_file, written, rcVars, vnVars, evVars, fmtVars>>

\* main.py 153-155: the with block ends
CloseOutput ==
    /\ pc = "write"
    /\ written = Len(output_lines)
    /\ pc' = "exit0"
    /\ UNCHANGED <<in_raw, in_parsed, data, comments, constants, output_lines, entry_i,
                   error, out_file, written, rcVars, vnVars, evVars, fmtVars>>

----------------------------------------------------------------------------
(* format_list and format_table, called on their own                       *)

\* the numbers lists and tables hold
NumberPool == { PyInt(10), PyInt(20), PyInt(-3), PyBool(TRUE), PyFloat(3, 2) }
\* the keys of tables
TableKeys == { <<"K", "1">>, <<"K", "2">>, <<"x">>, <<"_", "b">> }

Lists == { List(xs) : xs \in SeqsUpTo(NumberPool, MaxItems) }
\* a table is its items in iteration order, no key twice
Tables == { Table(kvs) :
              kvs \in { t \in SeqsUpTo(TableKeys \X NumberPool, MaxItems) :
                          \A i, j \in 1..Len(t) : i # j => t[i][1] # t[j][1] } }

FmtIdle == fmt_value = List(<<>>) /\ fmt_result = <<"idle">>

\* main.py 78-79
FmtList ==
    /\ fmt_result = <<>>
    /\ fmt_value.type = "list"
    /\ fmt_result' = <<FormatList(fmt_value.items)>>
    /\ UNCHANGED <<fmt_value, rcVars, vnVars, evVars, mainVars>>

\* main.py 81-83
FmtTable ==
    /\ fmt_result = <<>>
    /\ fmt_value.type = "dict"
    /\ fmt_result' = <<FormatTable(fmt_value.pairs)>>
    /\ UNCHANGED <<fmt_value, rcVars, vnVars, evVars, mainVars>>

----------------------------------------------------------------------------
(* C2, C3: postfix expressions, read as trees.                             *)

Percent == <<"%">>
Slash == <<"/">>
TreeOperators == OperatorTokens \ {Slash}

\* the number a literal token writes
LiteralValue(token) == CHOOSE n \in 0..99 : IntToStr(n) = token

IsOperand(token, env) == IsDigit(token) \/ token \in DOMAIN env
OperandValue(token, env) ==
    IF IsDigit(token) THEN LiteralValue(token) ELSE env[token].n

TreeApply(token, a, b) ==
    CASE token = <<"+">> -> a + b
      [] token = <<"-">> -> a - b
      [] token = <<"*">> -> a * b
      [] token = <<"m", "i", "n">> -> IF a <= b THEN a ELSE b

\* the postfix expression that ends at token e of toks: where it starts and
\* its value, an operator taking the expression before it as its right operand
\* and the one before that as its left operand
RECURSIVE ExprEndingAt(_, _, _)
ExprEndingAt(toks, e, env) ==
    IF e < 1 THEN [ok |-> FALSE, start |-> 0, val |-> 0]
    ELSE IF IsOperand(toks[e], env)
    THEN [ok |-> TRUE, start |-> e, val |-> OperandValue(toks[e], env)]
    ELSE IF toks[e] \in TreeOperators
    THEN LET r == ExprEndingAt(toks, e - 1, env)
         IN IF ~r.ok THEN [ok |-> FALSE, start |-> 0, val |-> 0]
            ELSE LET l == ExprEndingAt(toks, r.start - 1, env)
                 IN IF ~l.ok THEN [ok |-> FALSE, start |-> 0, val |-> 0]
                    ELSE [ok |-> TRUE, start |-> l.start,
                          val |-> TreeApply(toks[e], l.val, r.val)]
    ELSE [ok |-> FALSE, start |-> 0, val |-> 0]

\* toks is one postfix expression of literals, bound names and +, -, *, min
WellFormed(toks, env) ==
    LET x == ExprEndingAt(toks, Len(toks), env) IN x.ok /\ x.start = 1
TreeValue(toks, env) == ExprEndingAt(toks, Len(toks), env).val

\* C2: on a well-formed postfix stream of literals, bound names and the
\* operators +, -, *, min, evaluate_infix returns the value of the expression,
\* the operator's left operand being the value pushed first.
EvaluateMatchesPostfix ==
    (ev_pc = "done" /\ WellFormed(tokens, ev_constants)) =>
        ev_result[1] = Return(PyInt(TreeValue(tokens, ev_constants)))

\* 'A 12 -' with A = 10 has been evaluated, to 10 - 12
WitnessEvaluateMatchesPostfix ==
    /\ ev_pc = "done"
    /\ tokens = << <<"A">>, <<"1", "2">>, <<"-">> >>
    /\ <<"A">> \in DOMAIN ev_constants
    /\ ev_result = <<Return(PyInt(-2))>>

IsUnknown(token, env) ==
    ~IsDigit(token) /\ token \notin DOMAIN env /\ token \notin OperatorTokens

\* the first token that is no literal, no bound name and no operator
FirstUnknown(toks, env) ==
    CHOOSE i \in 1..Len(toks) :
        /\ IsUnknown(toks[i], env)
        /\ \A j \in 1..(i - 1) : ~IsUnknown(toks[j], env)

\* operands less operators among the first k tokens
RECURSIVE Depth(_, _, _)
Depth(toks, k, env) ==
    IF k = 0 THEN 0
    ELSE Depth(toks, k - 1, env) + (IF IsOperand(toks[k], env) THEN 1 ELSE -1)

\* an operator before token f finds fewer than two operands
UnderflowBefore(toks, f, env) ==
    \E j \in 1..(f - 1) :
        toks[j] \in OperatorTokens /\ Depth(toks, j - 1, env) < 2

\* C3 as stated: a stream that holds the token '%' makes evaluate_infix
\* raise the unknown-token ValueError, in every environment.
UnknownOperatorRaisesValueError ==
    (ev_pc = "done" /\ \E i \in 1..Len(tokens) : tokens[i] = Percent) =>
        ev_result[1] = Raise("ValueError")

\* C3 as amended: a stream that holds the token '%' never returns a value;
\* it raises the unknown-token ValueError unless a token before the first
\* unknown token has failed already: an operator with fewer than two operands
\* (IndexError) or a division (ZeroDivisionError).
UnknownOperatorNeverReturns ==
    (ev_pc = "done" /\ \E i \in 1..Len(tokens) : tokens[i] = Percent) =>
        LET f == FirstUnknown(tokens, ev_constants)
            r == ev_result[1]
        IN /\ r.kind = "raise"
           /\ r.exc \in {"ValueError", "IndexError", "ZeroDivisionError"}
           /\ r.exc = "IndexError" <=> UnderflowBefore(tokens, f, ev_constants)
           /\ r.exc = "ZeroDivisionError" =>
                  \E j \in 1..(f - 1) : tokens[j] = Slash
           /\ (\A j \in 1..(f - 1) : tokens[j] \notin OperatorTokens) =>
                  r.exc = "ValueError"

\* '12 %' has raised the unknown-token error
WitnessUnknownOperatorNeverReturns ==
    /\ ev_pc = "done"
    /\ tokens = << <<"1", "2">>, Percent >>
    /\ ev_result = <<Raise("ValueError")>>

----------------------------------------------------------------------------
(* C4-C8, C10: process_data and main.                                      *)

Started == pc \in {"process", "open", "write", "exit0", "exit1", "crash"}
Ended == pc \in {"exit0", "exit1", "crash"}

\* a numeric scalar: an integer or a real number
IsNumeric(value) == value.type \in {"int", "float"}
\* a string that starts and ends with '|'
IsDelimited(value) ==
    value.type = "str" /\ Len(value.text) >= 1
        /\ Head(value.text) = Bar /\ value.text[Len(value.text)] = Bar

\* the text between the delimiters, without the whitespace around it: the
\* part of it that neither starts nor ends with whitespace and has nothing
\* but whitespace before and after it
Stripped(text) ==
    LET inner == SubSeq(text, 2, Len(text) - 1)
        n == Len(inner)
    IN CHOOSE l \in { SubSeq(inner, i, j) : i \in 1..(n + 1), j \in 0..n } :
         \E i \in 1..(n + 1), j \in 0..n :
            /\ l = SubSeq(inner, i, j)
            /\ \A k \in 1..(i - 1) : IsSpace(inner[k])
            /\ \A k \in (j + 1)..n : IsSpace(inner[k])
            /\ i <= j => ~IsSpace(inner[i]) /\ ~IsSpace(inner[j])
            /\ i > j => l = <<>>

\* the line followed by nothing or by one of the comments, as a suffix
WithOrWithoutComment(line) ==
    {line} \cup { line \o <<SP, SP, SP, "{", "!", SP>> \o comments[c][2] \o <<SP, "!", "}">> :
                    c \in 1..Len(comments) }

\* the bindings made before entry i was taken
EnvBefore(i) ==
    [k \in { data[j].key : j \in 1..(i - 1) } \cap DOMAIN constants |-> constants[k]]

\* C4 as stated: after N entries the environment binds exactly the names of
\* the numeric scalars among them, to their values, and of the expressions
\* among them, to their results evaluated against the entries before them.
EnvironmentIsExactlyNumericAndExpressionEntries ==
    Started =>
        /\ DOMAIN constants =
              { data[i].key : i \in { j \in 1..entry_i :
                    IsNumeric(data[j].value) \/ IsDelimited(data[j].value) } }
        /\ \A i \in 1..entry_i :
              /\ IsNumeric(data[i].value) => constants[data[i].key] = data[i].value.num
              /\ IsDelimited(data[i].value) =>
                    Return(constants[data[i].key])
                        = EvaluateInfix(Stripped(data[i].value.text), EnvBefore(i))

\* the text that follows " -> " in the line of an entry
Label(entry) ==
    IF IsDelimited(entry.value) THEN Stripped(entry.value.text) ELSE entry.key

StartsWith(s, prefix) == Len(s) >= Len(prefix) /\ SubSeq(s, 1, Len(prefix)) = prefix

\* the line is one made from the entry: a rendering, " -> ", the label of the
\* entry, and at most a comment; the rendering of a list or a table opens
\* with its bracket
LineIsFrom(line, entry) ==
    /\ \E k \in 1..Len(line) :
          SubSeq(line, k + 1, Len(line)) \in WithOrWithoutComment(Arrow \o Label(entry))
    /\ entry.value.type = "list" => StartsWith(line, <<"(", "l", "i", "s", "t", SP>>)
    /\ entry.value.type = "dict" => StartsWith(line, <<"t", "a", "b", "l", "e", "(", "[">>)

\* C5: at every point of process_data there are as many output lines as
\* entries taken, line i made from entry i; when it returns there is one
\* line per entry.
OneLinePerEntryInOrder ==
    Started =>
        /\ Len(output_lines) = entry_i
        /\ \A i \in 1..Len(output_lines) : LineIsFrom(output_lines[i], data[i])
        /\ pc \in {"open", "write", "exit0"} => Len(output_lines) = Len(data)

\* process_data has returned three lines for a number, a list and a table
WitnessOneLinePerEntryInOrder ==
    /\ pc = "open"
    /\ Len(data) = 3
    /\ <<data[1].value, data[2].value, data[3].value>> = <<Int10, List123, TableK1K2>>
    /\ Len(output_lines) = 3
    /\ Len(comments) = 1

\* C6: the line of an expression entry is the result, " -> " and the text
\* between the delimiters without the whitespace around it (and its comment,
\* if one falls on the line); the result is that of evaluating the text
\* against the bindings of the entries before it, and the name of the entry
\* is bound to it.
ExpressionEntryLineAndBinding ==
    Started =>
        \A i \in 1..entry_i :
            IsDelimited(data[i].value) =>
                LET text == Stripped(data[i].value.text)
                    r == EvaluateInfix(text, EnvBefore(i))
                IN /\ r.kind = "return"
                   /\ output_lines[i] \in WithOrWithoutComment(NumToStr(r.val) \o Arrow \o text)
                   /\ data[i].key \in DOMAIN constants
                   /\ constants[data[i].key] = r.val

\* A = 10, B = 10, C = '|A B +|' has given the line '20 -> A B +' and C = 20
WitnessExpressionEntryLineAndBinding ==
    /\ pc = "open"
    /\ Len(data) = 3
    /\ <<data[1].value, data[2].value, data[3].value>> = <<Int10, Int10, SumAB>>
    /\ comments = <<>>
    /\ output_lines[3] = <<"2", "0", SP, "-", ">", SP, "A", SP, "B", SP, "+">>
    /\ constants[<<"C">>] = PyInt(20)

\* the entry process_data stopped at, when it stopped at one
Stopped == Ended /\ entry_i < Len(data)
StoppedAt == data[entry_i + 1]

\* C7 as stated: when the evaluation of an expression entry fails, whatever
\* the failure, process_data raises the ValueError that names the entry, which
\* main reports.
ExpressionFailuresAreWrapped ==
    (/\ Stopped
     /\ NameMatches(StoppedAt.key)
     /\ IsDelimited(StoppedAt.value)) =>
        /\ error = Failed("ValueError", "expression", StoppedAt.key)
        /\ pc = "exit1"

\* C8 as stated: an entry whose value is no numeric scalar, no list, no table
\* and no delimited expression gets no line and no binding, and process_data
\* stops at it with the unsupported-value error that names it.
Supported(value) ==
    IsNumeric(value) \/ value.type \in {"list", "dict"} \/ IsDelimited(value)
UnsupportedValuesAbort ==
    Started =>
        /\ \A i \in 1..entry_i : Supported(data[i].value)
        /\ (Stopped /\ NameMatches(StoppedAt.key) /\ ~Supported(StoppedAt.value)) =>
              /\ error = Failed("ValueError", "format", StoppedAt.key)
              /\ StoppedAt.key \notin DOMAIN constants

\* C10 as stated: when main ends, the output file holds every line of the
\* document or has not been touched; and it is opened only after
\* process_data has returned for all entries.
OutputIsAllOrNothing ==
    /\ Ended =>
          \/ out_file = <<>>
          \/ /\ Len(output_lines) = Len(data)
             /\ out_file[1] = [i \in 1..Len(output_lines) |-> output_lines[i] \o <<NL>>]
    /\ out_file # <<>> => (entry_i = Len(data) /\ Len(output_lines) = Len(data))

----------------------------------------------------------------------------
(* C9                                                                      *)

\* C9 as stated: validate_name accepts a name if and only if its first
\* character is an underscore or an uppercase letter and every later one is
\* an underscore, a letter or a digit.
ValidateNameAcceptsExactlyThePattern ==
    vn_result # "pending" =>
        (vn_result = "ok" <=>
            /\ Len(vn_name) >= 1
            /\ vn_name[1] \in NameFirst
            /\ \A i \in 2..Len(vn_name) : vn_name[i] \in NameRest)

----------------------------------------------------------------------------
(* C11, C12: the renderings of lists and tables                            *)

FmtDone == fmt_result # <<>> /\ fmt_result # <<"idle">>

\* the texts of the elements from element i on, each but the first after sep
RECURSIVE ElementsText(_, _, _)
ElementsText(xs, i, sep) ==
    IF i > Len(xs) THEN <<>>
    ELSE (IF i = 1 THEN <<>> ELSE sep) \o NumToStr(xs[i]) \o ElementsText(xs, i + 1, sep)

\* the "key = value" texts of the pairs from pair i on, each but the first after sep
RECURSIVE PairsText(_, _, _)
PairsText(kvs, i, sep) ==
    IF i > Len(kvs) THEN <<>>
    ELSE (IF i = 1 THEN <<>> ELSE sep)
             \o kvs[i][1] \o <<SP, "=", SP>> \o NumToStr(kvs[i][2])
             \o PairsText(kvs, i + 1, sep)

K1 == <<"K", "1">>
K2 == <<"K", "2">>
TableK1K2Text ==
    <<"t", "a", "b", "l", "e", "(", "[", "K", "1", " ", "=", " ", "1", "0", ",", " ",
      "K", "2", " ", "=", " ", "2", "0", "]", ")">>
List10And20Text == <<"(", "l", "i", "s", "t", " ", "1", "0", " ", "2", "0", ")">>

TableRendersOnePairPerLine ==
    (FmtDone /\ fmt_value.type = "dict") =>
        fmt_result[1] = <<"t", "a", "b", "l", "e", "(", "[", NL>>
                           \o PairsText(fmt_value.pairs, 1, <<",", SP, NL>>)
                           \o <<NL, "]", ")">>

----------------------------------------------------------------------------
(* C13: what is left on the stack when evaluate_infix returns              *)

\* C13: evaluate_infix returns a value only when exactly one value remains on
\* the stack after the last token; a stream that leaves more than one value,
\* or none, fails.  The return pops the value it returns, so after it the
\* stack is empty exactly when one value remained.
ReturnsOnlyWhenOneValueRemains ==
    (ev_pc = "done" /\ ev_result[1].kind = "return") => stack = <<>>

----------------------------------------------------------------------------
(* C14: the comments in the output of process_data                         *)

\* input texts whose comments open on several lines, some past the last
\* output line
CommentLinePool == { <<"A">>, <<"{", "{", "!", "c", SP>>, <<"{", "{", "!", "d">>,
                     <<SP, "}", "}">> }
CommentRaws == { Join(ls, <<NL>>) : ls \in SeqsUpTo(CommentLinePool, MaxLines) }
\* values that give a line each, and one that stops process_data
CommentValuePool == { Int10, SumAB, PlainText }

SuffixOpen == <<SP, SP, SP, "{", "!", SP>>
SuffixClose == <<SP, "!", "}">>
\* the line holds no comment
Plain(line) == ~Contains(line, <<"{", "!">>)
\* the line is a line without comment followed by the one suffix of text
Suffixed(line, text) ==
    \E n \in 0..Len(line) :
        /\ Plain(SubSeq(line, 1, n))
        /\ line = SubSeq(line, 1, n) \o SuffixOpen \o text \o SuffixClose

\* C14: the output line at zero-based index i carries the suffix
\* "   {! text !}" if and only if the comments list holds a comment whose
\* line index is i, and text is that comment's text; a comment whose index is
\* no output line's index is attached nowhere, and no line carries two
\* suffixes.
CommentsAttachToTheirLines ==
    Started =>
        \A i \in 1..Len(output_lines) :
            LET at == { c \in 1..Len(comments) : comments[c][1] = i - 1 }
            IN IF at = {} THEN Plain(output_lines[i])
               ELSE \E c \in at : Suffixed(output_lines[i], comments[c][2])

WitnessCommentsAttachToTheirLines ==
    /\ pc = "exit0"
    /\ Len(output_lines) = 2
    /\ Len(comments) = 2
    /\ comments[1][1] = 0 /\ comments[2][1] = 2
    /\ comments[1][2] # comments[2][2]
    /\ Suffixed(output_lines[1], comments[1][2])
    /\ Plain(output_lines[2])

----------------------------------------------------------------------------
(* C15, C19: names are validated before anything else                      *)

\* the entry-name pattern: an underscore or an uppercase letter, then
\* underscores, letters and digits
IsEntryName(name) ==
    /\ Len(name) >= 1
    /\ name[1] \in NameFirst
    /\ \A i \in 2..Len(name) : name[i] \in NameRest

\* C15: process_data validates the name of an entry before it classifies,
\* renders, evaluates or binds the entry: no entry with an invalid name is ever
\* taken, and at an entry with an invalid name process_data raises the
\* invalid-name error, whatever the value, with no line appended and no name
\* bound for it, and takes no later entry.
InvalidNameStopsBeforeAnythingElse ==
    Started =>
        /\ \A i \in 1..entry_i : IsEntryName(data[i].key)
        /\ (pc # "process" /\ entry_i < Len(data) /\ ~IsEntryName(data[entry_i + 1].key)) =>
              /\ error = Failed("ValueError", "name", data[entry_i + 1].key)
              /\ pc = "exit1"
              /\ Len(output_lines) = entry_i
              /\ data[entry_i + 1].key \notin DOMAIN constants

\* C19: in a run of process_data that starts with an empty environment every
\* key ever bound matches the entry-name pattern, hence none is a digit-only
\* literal or an operator symbol, and no binding shadows a literal or an
\* operator in the evaluator.
BoundKeysAreEntryNames ==
    Started =>
        \A k \in DOMAIN constants :
            /\ IsEntryName(k)
            /\ ~IsDigit(k)
            /\ k \notin OperatorTokens

----------------------------------------------------------------------------
(* C16, C17, C18: where the lines of the raw text go                       *)

\* the line opens a block; the line closes the open block
Opens(line) == Contains(line, OpenMarker)
Closes(line) == Contains(line, CloseMarker) /\ ~Opens(line)

\* after the lines 1..n of ls: the one-based line on which the extractor went
\* from outside to inside a comment for the block still open, 0 when outside
RECURSIVE OpenSince(_, _)
OpenSince(ls, n) ==
    IF n = 0 THEN 0
    ELSE LET before == OpenSince(ls, n - 1)
         IN IF before = 0 THEN (IF Opens(ls[n]) THEN n ELSE 0)
            ELSE IF Closes(ls[n]) THEN 0
            ELSE before

\* the blocks <<opening line, closing line>> closed within the lines 1..n of ls
RECURSIVE ClosedBlocks(_, _)
ClosedBlocks(ls, n) ==
    IF n = 0 THEN <<>>
    ELSE ClosedBlocks(ls, n - 1) \o
            (IF OpenSince(ls, n - 1) # 0 /\ Closes(ls[n])
             THEN << <<OpenSince(ls, n - 1), n>> >> ELSE <<>>)

\* C16: when a block is opened and never closed before the end of the input,
\* remove_comments records no comment for it, none of the lines from its
\* opening line to the end appears in the cleaned text, and the comments and
\* cleaned lines before it are what they are without it.
UnclosedBlockIsDropped ==
    (rc_pc = "done" /\ OpenSince(lines, Len(lines)) # 0) =>
        LET s == OpenSince(lines, Len(lines))
            before == SubSeq(lines, 1, s - 1)
            b == ClosedBlocks(before, s - 1)
        IN /\ Len(rc_result[1].comments) = Len(b)
           /\ \A k \in 1..Len(b) : rc_result[1].comments[k][1] < s - 1
           /\ rc_result[1].cleaned = Join(LinesOutside(before, b, 1), <<NL>>)
           /\ LET st == RCLoop(RCInitState, before, 1)
              IN /\ ~st.inside_comment
                 /\ rc_result[1] = [cleaned |-> Join(st.cleaned_lines, <<NL>>),
                                    comments |-> st.comments]

WitnessUnclosedBlockIsDropped ==
    /\ rc_pc = "done"
    /\ OpenSince(lines, Len(lines)) = 4
    /\ Len(lines) = 4
    /\ Len(rc_result[1].comments) = 1
    /\ rc_result[1].cleaned = <<"A">>

\* C17: every recorded comment (s, text) has for s the index of the line on
\* which the extractor went from outside to inside a comment for its block,
\* and for text the trimmed single-space join of the lines s to the block's
\* closing line, also when lines with the opening marker occur inside the
\* block.
CommentsStartWhereTheirBlockOpened ==
    rc_pc \in {"loop", "done"} =>
        LET b == ClosedBlocks(lines, line_number)
        IN /\ Len(rc_comments) = Len(b)
           /\ \A k \in 1..Len(b) :
                 rc_comments[k] = <<b[k][1] - 1,
                                    Strip(Join(SubSeq(lines, b[k][1], b[k][2]), <<SP>>))>>

\* C18: after any prefix of the lines is scanned, every scanned line is in
\* exactly one of the cleaned lines, the text of one recorded comment, or the
\* pending buffer; the buffer is non-empty only while inside a comment; the
\* cleaned lines are the scanned lines outside the blocks in their order (a
\* line with the closing marker met outside a comment is among them).
ScannedLinesAreInOnePlace ==
    rc_pc \in {"loop", "done"} =>
        LET n == line_number
            b == ClosedBlocks(lines, n)
            p == OpenSince(lines, n)
            pending == IF p = 0 THEN <<>> ELSE << <<p, n>> >>
            ranges == b \o pending
        IN /\ \A k \in 1..Len(ranges) :
                 /\ 1 <= ranges[k][1] /\ ranges[k][1] <= ranges[k][2] /\ ranges[k][2] <= n
                 /\ k < Len(ranges) => ranges[k][2] < ranges[k + 1][1]
           /\ Len(rc_comments) = Len(b)
           /\ \A k \in 1..Len(b) :
                 rc_comments[k][2] = Strip(Join(SubSeq(lines, b[k][1], b[k][2]), <<SP>>))
           /\ comment_buffer = (IF p = 0 THEN <<>> ELSE SubSeq(lines, p, n))
           /\ cleaned_lines = LinesOutside(SubSeq(lines, 1, n), ranges, 1)
           /\ comment_buffer # <<>> => inside_comment

WitnessScannedLinesAreInOnePlace ==
    /\ rc_pc = "loop"
    /\ line_number = 4
    /\ Len(cleaned_lines) = 1
    /\ Contains(cleaned_lines[1], CloseMarker)
    /\ Len(rc_comments) = 1
    /\ Len(comment_buffer) = 1

----------------------------------------------------------------------------
(* Specifications.                                                         *)

\* remove_comments on every raw text of at most MaxLines lines
InitRC ==
    /\ rc_data \in RawTexts
    /\ rc_pc = "start"
    /\ lines = <<>>
    /\ line_number = 0
    /\ cleaned_lines = <<>>
    /\ rc_comments = <<>>
    /\ inside_comment = FALSE
    /\ comment_buffer = <<>>
    /\ comment_start_line = <<>>
    /\ rc_result = <<>>
    /\ VNIdle
    /\ EVIdle /\ ev_pc = "idle"
    /\ MainIdle /\ pc = "idle"
    /\ FmtIdle

NextRC == RCStart \/ RCLine \/ RCReturn
SpecRC == InitRC /\ [][NextRC]_vars

\* validate_name on every name of at most MaxNameLen characters
InitVN ==
    /\ vn_name \in NamePool
    /\ vn_result = "pending"
    /\ RCIdle /\ rc_pc = "idle"
    /\ EVIdle /\ ev_pc = "idle"
    /\ MainIdle /\ pc = "idle"
    /\ FmtIdle

NextVN == VNValidate
SpecVN == InitVN /\ [][NextVN]_vars

\* evaluate_infix on every expression of at most MaxTokens tokens
InitEV ==
    /\ ev_expression \in Expressions
    /\ ev_constants \in EnvPool
    /\ ev_pc = "start"
    /\ tokens = <<>>
    /\ token_i = 0
    /\ stack = <<>>
    /\ ev_result = <<>>
    /\ RCIdle /\ rc_pc = "idle"
    /\ VNIdle
    /\ MainIdle /\ pc = "idle"
    /\ FmtIdle

NextEV == EVStart \/ EVToken \/ EVReturn
SpecEV == InitEV /\ [][NextEV]_vars

\* main on every input file of at most MaxEntries entries
InitMain ==
    /\ in_raw \in MainRaws
    /\ \/ in_parsed = ParsedError
       \/ \E n \in 0..MaxEntries : \E vals \in [1..n -> ValuePool], odd \in OddKeys(n) :
              in_parsed = ParsedOk(Doc(vals, odd))
    /\ pc = "load"
    /\ data = <<>>
    /\ comments = <<>>
    /\ constants = EmptyEnv
    /\ output_lines = <<>>
    /\ entry_i = 0
    /\ error = NoError
    /\ out_file = <<>>
    /\ written = 0
    /\ RCIdle /\ rc_pc = "idle"
    /\ VNIdle
    /\ EVIdle /\ ev_pc = "idle"
    /\ FmtIdle

NextMain ==
    \/ LoadTomlIOError \/ LoadTomlDecodeError \/ LoadToml
    \/ ProcessNext \/ ProcessReturn
    \/ OpenOutput \/ OpenOutputIOError
    \/ WriteLine \/ WriteLineIOError \/ CloseOutput
SpecMain == InitMain /\ [][NextMain]_vars

\* main() on input texts with several comments
InitComments ==
    /\ in_raw \in CommentRaws
    /\ \/ in_parsed = ParsedError
       \/ \E n \in 0..MaxEntries : \E vals \in [1..n -> CommentValuePool] :
              in_parsed = ParsedOk(Doc(vals, <<0, "none">>))
    /\ pc = "load"
    /\ data = <<>>
    /\ comments = <<>>
    /\ constants = EmptyEnv
    /\ output_lines = <<>>
    /\ entry_i = 0
    /\ error = NoError
    /\ out_file = <<>>
    /\ written = 0
    /\ RCIdle /\ rc_pc = "idle"
    /\ VNIdle
    /\ EVIdle /\ ev_pc = "idle"
    /\ FmtIdle
SpecComments == InitComments /\ [][NextMain]_vars

\* format_list and format_table on every list and table of at most MaxItems items
InitFmt ==
    /\ fmt_value \in Lists \cup Tables
    /\ fmt_result = <<>>
    /\ RCIdle /\ rc_pc = "idle"
    /\ VNIdle
    /\ EVIdle /\ ev_pc = "idle"
    /\ MainIdle /\ pc = "idle"
NextFmt == FmtList \/ FmtTable
SpecFmt == InitFmt /\ [][NextFmt]_vars

====
